---- MODULE Spec2Model ----
(***************************************************************************)
(* State-machine model of pico_wifi.py: the PicoWifi connection manager    *)
(* (init / connectToWifi / startAccessPoint / gatherCredentials /          *)
(* clearCredentials) driving the two WLAN personas of the driver, and the  *)
(* WifiCredentialsServer accept loop with its hand-written HTTP parsing.   *)
(*                                                                         *)
(* Python strings are modelled as sequences of code points (integers).     *)
(* The driver (module network) and the client of the provisioning server   *)
(* are the environment: every value read from them is a nondeterministic   *)
(* choice made at the read.                                                *)
(***************************************************************************)
EXTENDS Integers, Sequences, FiniteSets, TLC

\* ------------------------------------------------------------------ bounds
\* largest connection_timeout the constructor is given
MaxTimeout == 3
\* largest number of '&'-separated tokens in a submitted form body
MaxTokens == 2

\* --------------------------------------------------------------- constants
STA_DISCONNECTED == 1
STA_CONNECTING == 2
STA_CONNECTED == 3
STA_ACCESSPOINT == 4

\* the values of network.WLAN.status() the code tells apart, and two of the
\* values it does not (idle, still joining, generic failure)
DriverStatuses ==
    {"STAT_GOT_IP", "STAT_WRONG_PASSWORD", "STAT_NO_AP_FOUND",
     "STAT_IDLE", "STAT_CONNECTING", "STAT_CONNECT_FAIL"}

None == "None"

VARIABLES
    pc,                \* position of the single thread of control
    stack,             \* the methods being executed, outermost first
    result,            \* outcome of the last finished top-level call
    credentials,       \* PicoWifi.credentials
    connection_state,  \* PicoWifi.__connection_state
    connection_timeout,\* PicoWifi.connection_timeout
    staActive,         \* what __wifi_connection.active() reports
    apActive,          \* what __adhoc_ap.active() reports
    timeout,           \* the local counter of connectToWifi
    file,              \* content of the credentials file
    attempt,           \* what the current connect attempt has observed
    driverLog,         \* driver calls of the current connect attempt
    caught,            \* the exception init() has just caught
    sock,              \* the listening socket of the provisioning server
    conn,              \* the accepted connection
    request,           \* what the client of the accepted connection sends
    headers,           \* the header map of the request being handled
    body,              \* the body accumulated for the request
    sent,              \* status lines sent on the accepted connection
    pending,           \* body bytes the client has not delivered yet
    form,              \* the credentials local of the accept loop
    clients,           \* which population of clients the server meets
    gathered,          \* what WifiCredentialsServer.gatherCredentials returned
    u_input,           \* the argument input of __urlDecode
    u_toDecode,        \* the local toDecode of __urlDecode
    u_i,               \* the local i of __urlDecode (0-based, as in the code)
    u_chars,           \* the local chars of __urlDecode
    u_result           \* what __urlDecode returned

vars == <<pc, stack, result, credentials, connection_state, connection_timeout,
          staActive, apActive, timeout, file, attempt, driverLog, caught,
          sock, conn, request, headers, body, sent, pending, form,
          clients, gathered, u_input, u_toDecode, u_i, u_chars, u_result>>

cmVars == <<credentials, connection_state, connection_timeout, staActive,
            apActive, timeout, file, attempt, driverLog, caught>>
\* the locals of one call of __urlDecode
urlVars == <<u_input, u_toDecode, u_i, u_chars, u_result>>
srvVars == <<sock, conn, request, headers, body, sent, pending, form,
             clients, gathered, urlVars>>

\* ----------------------------------------------------------------- strings
\* A Python str is the sequence of its code points.  Ascii lists the
\* printable single-byte characters, code points 32..126, in order (three
\* of them by name).
Ascii == <<
    " ", "!", "dquote", "#", "$", "%", "&", "'", "(", ")", "*", "+", ",", "-",
    ".", "/", "0", "1", "2", "3", "4", "5", "6", "7", "8", "9", ":", ";",
    "<", "=", ">", "?", "@", "A", "B", "C", "D", "E", "F", "G", "H", "I",
    "J", "K", "L", "M", "N", "O", "P", "Q", "R", "S", "T", "U", "V", "W",
    "X", "Y", "Z", "[", "backslash", "]", "^", "_", "backtick", "a", "b", "c", "d", "e",
    "f", "g", "h", "i", "j", "k", "l", "m", "n", "o", "p", "q", "r", "s",
    "t", "u", "v", "w", "x", "y", "z", "{", "|", "}", "~"
>>

Ord(c) == 31 + CHOOSE i \in 1..Len(Ascii) : Ascii[i] = c

\* the str written with the characters of the tuple t
Str(t) == [i \in 1..Len(t) |-> Ord(t[i])]

Min(S) == CHOOSE x \in S : \A y \in S : x <= y

\* str.split(sep): cut at every leftmost, non-overlapping occurrence of sep
RECURSIVE Split(_, _)
Split(s, sep) ==
    LET n == Len(s)
        m == Len(sep)
        hits == {i \in 1..(n - m + 1) : SubSeq(s, i, i + m - 1) = sep}
    IN  IF hits = {} THEN <<s>>
        ELSE LET i == Min(hits)
             IN  <<SubSeq(s, 1, i - 1)>> \o Split(SubSeq(s, i + m, n), sep)

\* sep.join(parts)
RECURSIVE Join(_, _)
Join(parts, sep) ==
    IF Len(parts) = 0 THEN <<>>
    ELSE IF Len(parts) = 1 THEN parts[1]
    ELSE parts[1] \o sep \o Join(Tail(parts), sep)

\* the slices s[:n] and s[n:]
Take(s, n) == SubSeq(s, 1, IF n < Len(s) THEN n ELSE Len(s))
Drop(s, n) == SubSeq(s, (IF n < Len(s) THEN n ELSE Len(s)) + 1, Len(s))

CRLF == <<13, 10>>
CRLFCRLF == CRLF \o CRLF
Amp == Str(<<"&">>)
Eq == Str(<<"=">>)
Plus == Ord("+")
Space == Ord(" ")
Percent == Ord("%")
Minus == Ord("-")
SSID == Str(<<"s", "s", "i", "d">>)
PASSWORD == Str(<<"p", "a", "s", "s", "w", "o", "r", "d">>)

\* the characters int() strips from both ends of its argument
Whitespace == {9, 10, 11, 12, 13, 32}

\* value of one hexadecimal digit, -1 for any other character
HexDigit(c) ==
    IF c \in 48..57 THEN c - 48
    ELSE IF c \in 65..70 THEN c - 55
    ELSE IF c \in 97..102 THEN c - 87
    ELSE -1

ValueError == -1

\* int(hex, 16) for the two-character slice toDecode[i+1:i+3]: surrounding
\* whitespace is stripped and one sign is accepted, as int() does.  The
\* result is ValueError when int() raises, and is negative when chr() of it
\* raises ValueError.
IntBase16(hex) ==
    LET a == hex[1]
        b == hex[2]
    IN  IF a \in Whitespace /\ b \in Whitespace THEN ValueError
        ELSE IF a \in Whitespace THEN HexDigit(b)
        ELSE IF b \in Whitespace THEN HexDigit(a)
        ELSE IF a = Minus /\ HexDigit(b) >= 0 THEN 0 - HexDigit(b)
        ELSE IF a = Plus /\ HexDigit(b) >= 0 THEN HexDigit(b)
        ELSE IF HexDigit(a) >= 0 /\ HexDigit(b) >= 0
             THEN 16 * HexDigit(a) + HexDigit(b)
        ELSE ValueError

\* input.replace("+", " ")
ReplacePlus(input) ==
    [i \in 1..Len(input) |-> IF input[i] = Plus THEN Space ELSE input[i]]

\* the while loop of __urlDecode from (1-based) position i on; the 0-based
\* test of the code, i + 2 < len(toDecode) is i + 1 < Len here
RECURSIVE DecodeFrom(_, _)
DecodeFrom(toDecode, i) ==
    IF i > Len(toDecode) THEN <<>>
    ELSE IF toDecode[i] = Percent /\ i + 1 < Len(toDecode)
         THEN LET char == IntBase16(SubSeq(toDecode, i + 1, i + 2))
              IN  IF char >= 0
                  THEN <<char>> \o DecodeFrom(toDecode, i + 3)
                  ELSE <<toDecode[i]>> \o DecodeFrom(toDecode, i + 1)
    ELSE <<toDecode[i]>> \o DecodeFrom(toDecode, i + 1)

urlDecode(input) == DecodeFrom(ReplacePlus(input), 1)

\* ------------------------------------------------------- values and inputs
\* the decoded field values a client submits, and a file may hold
ValA == Str(<<"a">>)
ValB == Str(<<"B">>)
Empty == <<>>

CREDENTIALS_FILE == "credentials_file"

\* None where a str is expected, and where a WifiCredentials is expected
NoneStr == <<-1>>
NoneCredentials == [ssid |-> NoneStr, password |-> NoneStr, filepath |-> None]

\* WifiCredentials.__init__ without its check of the ssid
WifiCredentialsNoSsidCheck(ssid, password, filepath) ==
    IF password = NoneStr \/ password = Empty THEN NoneCredentials
    ELSE [ssid |-> ssid, password |-> password, filepath |-> filepath]

\* WifiCredentials.__init__: the object, or NoneCredentials where the
\* constructor raises
WifiCredentials(ssid, password, filepath) ==
    IF ssid = NoneStr \/ ssid = Empty THEN NoneCredentials
    ELSE IF password = NoneStr \/ password = Empty THEN NoneCredentials
    ELSE [ssid |-> ssid, password |-> password, filepath |-> filepath]

\* what open(path).read() and json.loads give: NoFile when there is no file
\* that parses to the two keys, else the two values
NoFile == [ssid |-> NoneStr, password |-> NoneStr]
FileContents ==
    {NoFile} \cup [ssid : {ValA, Empty}, password : {ValB}]

\* WifiCredentials.fromFile inside the try of PicoWifi.__init__: any failure
\* (no file, bad JSON, a constructor that raises) leaves credentials None
fromFile(content) ==
    WifiCredentials(content.ssid, content.password, CREDENTIALS_FILE)

\* PicoWifi.connectedToWifi, given what isconnected() reports
connectedToWifi(isconnected) == staActive /\ isconnected

\* PicoWifi.accessPointIsRunning
accessPointIsRunning == apActive

\* the public methods a caller of PicoWifi may invoke
Operations ==
    {"init", "connectToWifi", "startAccessPoint", "gatherCredentials",
     "clearCredentials"}

\* the except clauses of init()
InitCatches ==
    {"NoWifiCredentialsException", "IncorrectWifiPasswordException",
     "UnknownWifiConnectionFailureException"}

NoResult == [op |-> None, outcome |-> None, exception |-> None]

\* what one connect attempt has observed so far (bookkeeping of the model)
NewAttempt ==
    [iters |-> 0, sleeps |-> 0, lastStatus |-> None, everAssoc |-> FALSE,
     everTerminal |-> FALSE, firstBad |-> 0, outcome |-> None, code |-> None]

DriverCall(name, ssid, password) ==
    [call |-> name, ssid |-> ssid, password |-> password]

\* ------------------------------------------------------------ control flow
Top == stack[Len(stack)]

Goto(label) ==
    /\ pc' = label
    /\ UNCHANGED <<stack, result, caught>>

\* the method on top of the stack calls method m, which starts at label
CallMethod(m, label) ==
    /\ pc' = label
    /\ stack' = Append(stack, m)
    /\ UNCHANGED <<result, caught>>

\* where the caller goes on when the method on top of the stack returns
Continuation(caller, callee) ==
    IF caller = "init" /\ callee = "connectToWifi" THEN "i_connected"
    ELSE IF caller = "init" /\ callee = "startAccessPoint" THEN "i_gather"
    ELSE IF caller = "init" /\ callee = "gatherCredentials" THEN "i_assign"
    ELSE "g_server"

\* the method on top of the stack returns
Return ==
    /\ UNCHANGED caught
    /\ IF Len(stack) = 1
       THEN /\ pc' = "idle"
            /\ stack' = <<>>
            /\ result' = [op |-> stack[1], outcome |-> "returned",
                          exception |-> None]
       ELSE /\ pc' = Continuation(stack[Len(stack) - 1], Top)
            /\ stack' = SubSeq(stack, 1, Len(stack) - 1)
            /\ UNCHANGED result

\* whether an exception of this kind raised now is caught by init(): only
\* the call of connectToWifi is inside its try block
CaughtByInit(kind) ==
    /\ Len(stack) = 2
    /\ stack[1] = "init"
    /\ stack[2] = "connectToWifi"
    /\ kind \in InitCatches

\* the method on top of the stack raises an exception of this kind
Raise(kind) ==
    IF CaughtByInit(kind)
    THEN /\ pc' = "i_except"
         /\ stack' = <<"init">>
         /\ caught' = kind
         /\ UNCHANGED result
    ELSE /\ pc' = "idle"
         /\ stack' = <<>>
         /\ caught' = None
         /\ result' = [op |-> stack[1], outcome |-> "raised",
                       exception |-> kind]

\* no WifiCredentialsServer object is referenced any more: what belonged to
\* its last request is gone with it (its socket stays as it was left)
NoRequest == [method |-> Empty, path |-> Empty, lines |-> <<>>,
              sep |-> FALSE, data |-> Empty, first |-> 0]
\* None where a dict is expected
NoneDict == <<>>
ServerGone ==
    /\ request' = NoRequest
    /\ headers' = NoneDict
    /\ body' = Empty
    /\ sent' = <<>>
    /\ pending' = Empty
    /\ form' = NoneDict
    /\ gathered' = NoneCredentials
    /\ u_input' = Empty
    /\ u_toDecode' = Empty
    /\ u_i' = 0
    /\ u_chars' = <<>>
    /\ u_result' = Empty
    /\ UNCHANGED <<sock, conn, clients>>

\* no call of __urlDecode has been made
NoDecode ==
    /\ u_input = Empty
    /\ u_toDecode = Empty
    /\ u_i = 0
    /\ u_chars = <<>>
    /\ u_result = Empty

\* ------------------------------------------------------------------ caller
\* the program that owns the PicoWifi object calls one of its methods
Call ==
    /\ pc = "idle"
    /\ \E op \in Operations :
          /\ stack' = <<op>>
          /\ pc' = CASE op = "init" -> "i_try"
                     [] op = "connectToWifi" -> "c_start"
                     [] op = "startAccessPoint" -> "a_offWifi"
                     [] op = "gatherCredentials" -> "g_start"
                     [] op = "clearCredentials" -> "x_clear"
    /\ result' = NoResult
    /\ caught' = None
    /\ attempt' = NewAttempt
    /\ driverLog' = <<>>
    /\ UNCHANGED <<credentials, connection_state, connection_timeout,
                   staActive, apActive, timeout, file>>
    /\ ServerGone

\* -------------------------------------------------------------------- init
\* lines 59-62: the top of the while True loop, up to the call
InitTry ==
    /\ pc = "i_try"
    /\ CallMethod("connectToWifi", "c_start")
    /\ UNCHANGED cmVars
    /\ UNCHANGED srvVars

\* lines 63-64: connectToWifi returned
InitConnected ==
    /\ pc = "i_connected"
    /\ Return
    /\ UNCHANGED cmVars
    /\ UNCHANGED srvVars

\* lines 65-73: an except clause matched; log, then startAccessPoint()
InitExcept ==
    /\ pc = "i_except"
    /\ pc' = "a_offWifi"
    /\ stack' = Append(stack, "startAccessPoint")
    /\ caught' = None
    /\ attempt' = NewAttempt
    /\ driverLog' = <<>>
    /\ UNCHANGED <<result, credentials, connection_state, connection_timeout,
                   staActive, apActive, timeout, file>>
    /\ UNCHANGED srvVars

\* line 74, the call
InitGather ==
    /\ pc = "i_gather"
    /\ CallMethod("gatherCredentials", "g_start")
    /\ UNCHANGED cmVars
    /\ UNCHANGED srvVars

\* line 74, the assignment; then the loop starts over
InitAssign ==
    /\ pc = "i_assign"
    /\ credentials' = gathered
    /\ Goto("i_try")
    /\ UNCHANGED <<connection_state, connection_timeout, staActive, apActive,
                   timeout, file, attempt, driverLog>>
    /\ ServerGone

\* ---------------------------------------------------------- connectToWifi
\* connectToWifi with the state assigned before the test of the credentials
connectingStateEarly == STA_CONNECTING

\* lines 107-110: the state after the test of the credentials; the
\* assignment of line 110 is reached only when there are credentials
connectingState ==
    IF credentials = NoneCredentials THEN connection_state
    ELSE STA_CONNECTING

\* lines 107-110
ConnectStart ==
    /\ pc = "c_start"
    /\ driverLog' = <<>>
    /\ timeout' = 0
    /\ connection_state' = connectingState
    /\ IF credentials = NoneCredentials
       THEN /\ Raise("NoWifiCredentialsException")
            /\ attempt' = [NewAttempt EXCEPT
                              !.outcome = "NoWifiCredentialsException"]
       ELSE /\ Goto("c_offAdhoc")
            /\ attempt' = NewAttempt
    /\ UNCHANGED <<credentials, connection_timeout, staActive, apActive, file>>
    /\ UNCHANGED srvVars

\* __turnOffAdhoc without its busy-wait
turnOffAdhocNoWait == "c_onWifi"

\* __turnOffAdhoc: where control is after the test and the request; the
\* busy-wait is entered only when the persona reported active
turnOffAdhocNext == IF apActive THEN "c_offAdhocWait" ELSE "c_onWifi"

\* line 111, lines 181-184
TurnOffAdhoc ==
    /\ pc = "c_offAdhoc"
    /\ Goto(turnOffAdhocNext)
    /\ UNCHANGED cmVars
    /\ UNCHANGED srvVars

\* lines 185-186: the busy-wait ends when the driver reports inactive
TurnOffAdhocWait ==
    /\ pc = "c_offAdhocWait"
    /\ apActive' = FALSE
    /\ driverLog' = Append(driverLog, DriverCall("ap_inactive", Empty, Empty))
    /\ Goto("c_onWifi")
    /\ UNCHANGED <<credentials, connection_state, connection_timeout,
                   staActive, timeout, file, attempt, caught>>
    /\ UNCHANGED srvVars

\* __turnOnWifi without its busy-wait
turnOnWifiNoWait == "c_connect"

\* __turnOnWifi, test and request
turnOnWifiNext == IF staActive THEN "c_connect" ELSE "c_onWifiWait"

\* line 112, lines 189-192
TurnOnWifi ==
    /\ pc = "c_onWifi"
    /\ Goto(turnOnWifiNext)
    /\ UNCHANGED cmVars
    /\ UNCHANGED srvVars

\* lines 193-194
TurnOnWifiWait ==
    /\ pc = "c_onWifiWait"
    /\ staActive' = TRUE
    /\ driverLog' = Append(driverLog, DriverCall("sta_active", Empty, Empty))
    /\ Goto("c_connect")
    /\ UNCHANGED <<credentials, connection_state, connection_timeout,
                   apActive, timeout, file, attempt, caught>>
    /\ UNCHANGED srvVars

\* lines 116-121: disconnect(), connect(ssid, password), timeout = 0
ConnectIssue ==
    /\ pc = "c_connect"
    /\ driverLog' = driverLog
                      \o <<DriverCall("disconnect", Empty, Empty),
                           DriverCall("connect", credentials.ssid,
                                      credentials.password)>>
    /\ timeout' = 0
    /\ Goto("c_poll")
    /\ UNCHANGED <<credentials, connection_state, connection_timeout,
                   staActive, apActive, file, attempt, caught>>
    /\ UNCHANGED srvVars

\* __checkWifiConnectionStatus without its last branch: a final status that
\* is no address is let through
checkWithoutFinalRaise(status, failIfNotConnected) ==
    IF credentials = NoneCredentials
    THEN [state |-> connection_state,
          raises |-> "NoWifiCredentialsException"]
    ELSE IF status = "STAT_GOT_IP"
    THEN [state |-> STA_CONNECTED, raises |-> None]
    ELSE IF status = "STAT_WRONG_PASSWORD"
    THEN [state |-> STA_DISCONNECTED,
          raises |-> "IncorrectWifiPasswordException"]
    ELSE IF status = "STAT_NO_AP_FOUND"
    THEN [state |-> STA_DISCONNECTED,
          raises |-> "NoAccessPointFoundException"]
    ELSE [state |-> connection_state, raises |-> None]

\* __checkWifiConnectionStatus looking at a bad password only when
\* failIfNotConnected is set, that is only after the loop
checkBadPasswordLate(status, failIfNotConnected) ==
    IF credentials = NoneCredentials
    THEN [state |-> connection_state,
          raises |-> "NoWifiCredentialsException"]
    ELSE IF status = "STAT_GOT_IP"
    THEN [state |-> STA_CONNECTED, raises |-> None]
    ELSE IF status = "STAT_WRONG_PASSWORD" /\ failIfNotConnected
    THEN [state |-> STA_DISCONNECTED,
          raises |-> "IncorrectWifiPasswordException"]
    ELSE IF status = "STAT_NO_AP_FOUND"
    THEN [state |-> STA_DISCONNECTED,
          raises |-> "NoAccessPointFoundException"]
    ELSE IF failIfNotConnected
    THEN [state |-> STA_DISCONNECTED,
          raises |-> "UnknownWifiConnectionFailureException"]
    ELSE [state |-> connection_state, raises |-> None]

\* __checkWifiConnectionStatus with the no-access-point status folded into
\* the bad-password branch
checkCollapsed(status, failIfNotConnected) ==
    IF credentials = NoneCredentials
    THEN [state |-> connection_state,
          raises |-> "NoWifiCredentialsException"]
    ELSE IF status = "STAT_GOT_IP"
    THEN [state |-> STA_CONNECTED, raises |-> None]
    ELSE IF status \in {"STAT_WRONG_PASSWORD", "STAT_NO_AP_FOUND"}
    THEN [state |-> STA_DISCONNECTED,
          raises |-> "IncorrectWifiPasswordException"]
    ELSE IF failIfNotConnected
    THEN [state |-> STA_DISCONNECTED,
          raises |-> "UnknownWifiConnectionFailureException"]
    ELSE [state |-> connection_state, raises |-> None]

\* __checkWifiConnectionStatus on the status the driver reports: the new
\* connection state and the exception raised (None when it returns)
checkWifiConnectionStatus(status, failIfNotConnected) ==
    IF credentials = NoneCredentials
    THEN [state |-> connection_state,
          raises |-> "NoWifiCredentialsException"]
    ELSE IF status = "STAT_GOT_IP"
    THEN [state |-> STA_CONNECTED, raises |-> None]
    ELSE IF status = "STAT_WRONG_PASSWORD"
    THEN [state |-> STA_DISCONNECTED,
          raises |-> "IncorrectWifiPasswordException"]
    ELSE IF status = "STAT_NO_AP_FOUND"
    THEN [state |-> STA_DISCONNECTED,
          raises |-> "NoAccessPointFoundException"]
    ELSE IF failIfNotConnected
    THEN [state |-> STA_DISCONNECTED,
          raises |-> "UnknownWifiConnectionFailureException"]
    ELSE [state |-> connection_state, raises |-> None]

\* the status values that decide a branch of __checkWifiConnectionStatus
TerminalStatuses ==
    {"STAT_GOT_IP", "STAT_WRONG_PASSWORD", "STAT_NO_AP_FOUND"}

\* the loop condition with <= for <
PollContinuesOffByOne(isconnected) ==
    ~connectedToWifi(isconnected) /\ timeout <= connection_timeout

\* the condition of the while loop, line 123
PollContinues(isconnected) ==
    ~connectedToWifi(isconnected) /\ timeout < connection_timeout

\* the attempt after its status check number iters + 1
Observed(att, status, isconnected, inLoop, r) ==
    [att EXCEPT
       !.iters = IF inLoop THEN @ + 1 ELSE @,
       !.sleeps = IF inLoop /\ r.raises = None THEN @ + 1 ELSE @,
       !.lastStatus = status,
       !.everAssoc = @ \/ isconnected,
       !.everTerminal = @ \/ status \in TerminalStatuses,
       !.firstBad = IF inLoop /\ @ = 0 /\ status = "STAT_WRONG_PASSWORD"
                    THEN att.iters + 1 ELSE @,
       !.outcome = IF r.raises # None THEN r.raises
                   ELSE IF inLoop THEN None ELSE "returned",
       !.code = IF r.raises = "UnknownWifiConnectionFailureException"
                THEN status ELSE None]

\* lines 123-131: one evaluation of the loop condition and, when it holds,
\* one iteration: the status check, timeout += 1 and the one-second sleep
ConnectPoll ==
    /\ pc = "c_poll"
    /\ \E isconnected \in BOOLEAN :
          IF PollContinues(isconnected)
          THEN \E status \in DriverStatuses :
                  LET r == checkWifiConnectionStatus(status, FALSE)
                  IN  /\ connection_state' = r.state
                      /\ attempt' = Observed(attempt, status, isconnected,
                                             TRUE, r)
                      /\ IF r.raises # None
                         THEN Raise(r.raises) /\ timeout' = 0
                         ELSE Goto("c_poll") /\ timeout' = timeout + 1
          ELSE /\ Goto("c_final")
               /\ attempt' = [attempt EXCEPT !.everAssoc = @ \/ isconnected]
               /\ UNCHANGED <<connection_state, timeout>>
    /\ UNCHANGED <<credentials, connection_timeout, staActive, apActive,
                   file, driverLog>>
    /\ UNCHANGED srvVars

\* line 133: the status check after the loop
ConnectFinal ==
    /\ pc = "c_final"
    /\ \E status \in DriverStatuses :
          LET r == checkWifiConnectionStatus(status, TRUE)
          IN  /\ connection_state' = r.state
              /\ attempt' = Observed(attempt, status, FALSE, FALSE, r)
              /\ IF r.raises # None THEN Raise(r.raises) ELSE Return
    /\ timeout' = 0
    /\ UNCHANGED <<credentials, connection_timeout, staActive, apActive,
                   file, driverLog>>
    /\ UNCHANGED srvVars

\* ------------------------------------------------------- startAccessPoint
\* __turnOffWifi without its busy-wait
turnOffWifiNoWait == "a_onAdhoc"

\* __turnOffWifi, test and requests
turnOffWifiNext == IF staActive THEN "a_offWifiWait" ELSE "a_onAdhoc"

\* line 155, lines 197-202
TurnOffWifi ==
    /\ pc = "a_offWifi"
    /\ driverLog' = IF staActive
                    THEN <<DriverCall("disconnect", Empty, Empty)>>
                    ELSE <<>>
    /\ Goto(turnOffWifiNext)
    /\ UNCHANGED <<credentials, connection_state, connection_timeout,
                   staActive, apActive, timeout, file, attempt>>
    /\ UNCHANGED srvVars

\* lines 203-204
TurnOffWifiWait ==
    /\ pc = "a_offWifiWait"
    /\ staActive' = FALSE
    /\ Goto("a_onAdhoc")
    /\ UNCHANGED <<credentials, connection_state, connection_timeout,
                   apActive, timeout, file, attempt, driverLog>>
    /\ UNCHANGED srvVars

\* __turnOnAdhoc, test and request
turnOnAdhocNext == IF apActive THEN "a_done" ELSE "a_onAdhocWait"

\* line 156, lines 173-176
TurnOnAdhoc ==
    /\ pc = "a_onAdhoc"
    /\ Goto(turnOnAdhocNext)
    /\ UNCHANGED cmVars
    /\ UNCHANGED srvVars

\* lines 177-178
TurnOnAdhocWait ==
    /\ pc = "a_onAdhocWait"
    /\ apActive' = TRUE
    /\ Goto("a_done")
    /\ UNCHANGED <<credentials, connection_state, connection_timeout,
                   staActive, timeout, file, attempt, driverLog>>
    /\ UNCHANGED srvVars

\* lines 158-161
AccessPointStarted ==
    /\ pc = "a_done"
    /\ connection_state' = STA_ACCESSPOINT
    /\ Return
    /\ UNCHANGED <<credentials, connection_timeout, staActive, apActive,
                   timeout, file, attempt, driverLog>>
    /\ UNCHANGED srvVars

\* ------------------------------------------------------- clearCredentials
\* lines 89-94 with WifiCredentials.clearFile: os.remove either removes the
\* file or raises
ClearCredentials ==
    /\ pc = "x_clear"
    /\ IF credentials = NoneCredentials
       THEN Return /\ UNCHANGED <<credentials, file>>
       ELSE IF credentials.filepath = None \/ file = NoFile
       THEN Return /\ credentials' = NoneCredentials /\ UNCHANGED file
       ELSE \E removed \in BOOLEAN :
               IF removed
               THEN /\ Return
                    /\ file' = NoFile
                    /\ credentials' = NoneCredentials
               ELSE Raise("Exception") /\ UNCHANGED <<credentials, file>>
    /\ UNCHANGED <<connection_state, connection_timeout, staActive, apActive,
                   timeout, attempt, driverLog>>
    /\ UNCHANGED srvVars

\* ------------------------------------------------------------ HTTP parsing
Colon == Str(<<":">>)
METHOD == Str(<<"m", "e", "t", "h", "o", "d">>)
PATH == Str(<<"p", "a", "t", "h">>)
PROTOCOL == Str(<<"p", "r", "o", "t", "o", "c", "o", "l">>)
CONTENT_LENGTH ==
    Str(<<"C", "o", "n", "t", "e", "n", "t", "-", "L", "e", "n", "g", "t", "h">>)
GET == Str(<<"G", "E", "T">>)
POST == Str(<<"P", "O", "S", "T">>)

\* s.strip() as int() applies it
RECURSIVE Strip(_)
Strip(s) ==
    IF s = <<>> THEN s
    ELSE IF s[1] \in Whitespace THEN Strip(Tail(s))
    ELSE IF s[Len(s)] \in Whitespace THEN Strip(SubSeq(s, 1, Len(s) - 1))
    ELSE s

\* str.split() without a separator: the maximal runs of non-whitespace
RECURSIVE SplitWhitespace(_)
SplitWhitespace(s) ==
    IF s = <<>> THEN <<>>
    ELSE IF s[1] \in Whitespace THEN SplitWhitespace(Tail(s))
    ELSE LET stops == {i \in 1..Len(s) : s[i] \in Whitespace}
             end == IF stops = {} THEN Len(s) + 1 ELSE Min(stops)
         IN  <<SubSeq(s, 1, end - 1)>>
               \o SplitWhitespace(SubSeq(s, end, Len(s)))

RECURSIVE DecimalValue(_)
DecimalValue(digits) ==
    IF digits = <<>> THEN 0
    ELSE 10 * DecimalValue(SubSeq(digits, 1, Len(digits) - 1))
           + (digits[Len(digits)] - 48)

\* int(s): whitespace stripped, one optional sign, then decimal digits only;
\* raises ValueError otherwise
IntBase10(s) ==
    LET stripped == Strip(s)
        signed == stripped # <<>> /\ stripped[1] \in {Plus, Minus}
        digits == IF signed THEN Tail(stripped) ELSE stripped
    IN  IF digits = <<>> \/ \E i \in 1..Len(digits) : digits[i] \notin 48..57
        THEN [raises |-> "ValueError", value |-> 0]
        ELSE [raises |-> None,
              value |-> IF signed /\ stripped[1] = Minus
                        THEN 0 - DecimalValue(digits)
                        ELSE DecimalValue(digits)]

\* a dict built by inserting the (key, value) pairs of a list in order: the
\* last pair with a key gives its value
DictOf(pairs) ==
    [k \in {pairs[i][1] : i \in 1..Len(pairs)} |->
        pairs[CHOOSE i \in 1..Len(pairs) :
                 /\ pairs[i][1] = k
                 /\ \A j \in (i + 1)..Len(pairs) : pairs[j][1] # k][2]]

\* d[k] = v on a dict
DictSet(d, k, v) == [x \in DOMAIN d \cup {k} |-> IF x = k THEN v ELSE d[x]]

\* __getRequestHeaders: the header dict, or the IndexError of header[1] on
\* a line without ':' or of requestLine[1], requestLine[2] on a short line
getRequestHeaders(headerBlock) ==
    LET lines == Split(headerBlock, CRLF)
        splitHeaders == [i \in 1..Len(lines) |-> Split(lines[i], Colon)]
        requestLine == SplitWhitespace(splitHeaders[1][1])
        rest == SubSeq(splitHeaders, 2, Len(splitHeaders))
    IN  IF \E i \in 1..Len(rest) : Len(rest[i]) < 2
        THEN [raises |-> "IndexError", value |-> NoneDict]
        ELSE IF Len(requestLine) < 3
        THEN [raises |-> "IndexError", value |-> NoneDict]
        ELSE [raises |-> None,
              value |-> DictSet(DictSet(DictSet(DictOf(rest),
                                    METHOD, requestLine[1]),
                                    PATH, requestLine[2]),
                                    PROTOCOL, requestLine[3])]

\* line 452: the declared body length
contentLength(hdrs) ==
    IF CONTENT_LENGTH \in DOMAIN hdrs
    THEN IntBase10(hdrs[CONTENT_LENGTH])
    ELSE [raises |-> None, value |-> 0]

\* the loop condition giving up one byte early
BodyIncompleteShort(received, declared) == Len(received) + 1 < declared

\* the condition of the while loop of __getRequestBody, line 457
BodyIncomplete(received, declared) == Len(received) < declared

\* lines 504-505 of __parseCredentials: the form dict, or the IndexError of
\* param[1] on a token without '='
formParams(postBody) ==
    LET tokens == Split(postBody, Amp)
        splitParams == [i \in 1..Len(tokens) |-> Split(tokens[i], Eq)]
    IN  IF \E i \in 1..Len(splitParams) : Len(splitParams[i]) < 2
        THEN [raises |-> "IndexError", value |-> NoneDict]
        ELSE [raises |-> None,
              value |-> DictOf([i \in 1..Len(splitParams) |->
                                  <<urlDecode(splitParams[i][1]),
                                    urlDecode(splitParams[i][2])>>])]

OK200 == "200 OK"
BAD400 == "400 Bad Request"

\* __parseCredentials without its check of the ssid value
parseCredentialsNoSsidCheck(postBody) ==
    IF postBody = Empty
    THEN [raises |-> None, sends |-> BAD400, accepted |-> FALSE,
          value |-> NoneDict]
    ELSE LET parsed == formParams(postBody)
             fields == parsed.value
         IN  IF parsed.raises # None
             THEN [raises |-> parsed.raises, sends |-> None,
                   accepted |-> FALSE, value |-> NoneDict]
             ELSE IF PASSWORD \notin DOMAIN fields \/ SSID \notin DOMAIN fields
             THEN [raises |-> None, sends |-> BAD400, accepted |-> FALSE,
                   value |-> NoneDict]
             ELSE IF fields[PASSWORD] = Empty
             THEN [raises |-> None, sends |-> BAD400, accepted |-> FALSE,
                   value |-> NoneDict]
             ELSE [raises |-> None, sends |-> OK200, accepted |-> TRUE,
                   value |-> fields]

\* __parseCredentials: the status line it sends and the dict it returns
\* (NoneDict for None), or the exception it raises
\* before anything is sent
parseCredentials(postBody) ==
    IF postBody = Empty
    THEN [raises |-> None, sends |-> BAD400, accepted |-> FALSE,
          value |-> NoneDict]
    ELSE LET parsed == formParams(postBody)
             fields == parsed.value
         IN  IF parsed.raises # None
             THEN [raises |-> parsed.raises, sends |-> None,
                   accepted |-> FALSE, value |-> NoneDict]
             ELSE IF PASSWORD \notin DOMAIN fields \/ SSID \notin DOMAIN fields
             THEN [raises |-> None, sends |-> BAD400, accepted |-> FALSE,
                   value |-> NoneDict]
             ELSE IF fields[PASSWORD] = Empty
             THEN [raises |-> None, sends |-> BAD400, accepted |-> FALSE,
                   value |-> NoneDict]
             ELSE IF fields[SSID] = Empty
             THEN [raises |-> None, sends |-> BAD400, accepted |-> FALSE,
                   value |-> NoneDict]
             ELSE [raises |-> None, sends |-> OK200, accepted |-> TRUE,
                   value |-> fields]

\* ------------------------------------------------------------- the clients
\* What a client of the provisioning server sends: a request line, header
\* lines, the blank line (sep) unless the first segment ends before it, and
\* a body of which the first `first` bytes travel with the headers; the rest
\* arrives in as many later segments as the client likes.
PUT == Str(<<"P", "U", "T">>)
ROOT == Str(<<"/">>)
HTTP11 == Str(<<"H", "T", "T", "P", "/", "1", ".", "1">>)
LOWER_CONTENT_LENGTH ==
    Str(<<"c", "o", "n", "t", "e", "n", "t", "-", "l", "e", "n", "g", "t", "h">>)
Encoded42 == Str(<<"%", "4", "2">>)

RECURSIVE Decimal(_)
Decimal(n) ==
    IF n < 10 THEN <<48 + n>> ELSE Decimal(n \div 10) \o <<48 + (n % 10)>>

\* the '&'-separated tokens of submitted form bodies
Tokens ==
    {SSID, SSID \o Eq, SSID \o Eq \o ValA, SSID \o Eq \o Encoded42,
     PASSWORD \o Eq, PASSWORD \o Eq \o Encoded42,
     Str(<<"x">>) \o Eq \o CRLFCRLF}

RECURSIVE TokenLists(_)
TokenLists(n) ==
    IF n = 0 THEN {<<>>}
    ELSE LET shorter == TokenLists(n - 1)
         IN  shorter \cup {Append(l, tok) : l \in shorter, tok \in Tokens}

Bodies == {Join(l, Amp) : l \in TokenLists(MaxTokens)}

\* the header lines that may declare the length of a body of n bytes:
\* the exact length, a length one byte too long, the lower-case header
\* name, or no such header
HeaderKinds == {"exact", "long", "lower", "none"}
LengthHeader(kind, n) ==
    CASE kind = "exact" ->
           <<CONTENT_LENGTH \o Colon \o <<Space>> \o Decimal(n)>>
      [] kind = "long" ->
           <<CONTENT_LENGTH \o Colon \o <<Space>> \o Decimal(n + 1)>>
      [] kind = "lower" ->
           <<LOWER_CONTENT_LENGTH \o Colon \o <<Space>> \o Decimal(n)>>
      [] OTHER -> <<>>

ClientRequest(method, path, lines, sep, data, first) ==
    [method |-> method, path |-> path, lines |-> lines, sep |-> sep,
     data |-> data, first |-> first]

\* form submissions: every body, every declaration of its length, every
\* number of body bytes in the first segment
LongestBody == CHOOSE b \in Bodies : \A c \in Bodies : Len(c) <= Len(b)
BodyCuts == {c \in Bodies \X (0..Len(LongestBody)) : c[2] <= Len(c[1])}
PostRequests ==
    {ClientRequest(POST, ROOT, LengthHeader(kind, Len(c[1])), TRUE,
                   c[1], c[2]) : c \in BodyCuts, kind \in HeaderKinds}

\* page fetches, another method, a body on a GET, a first segment that ends
\* inside the header block, and a path with a colon in it
OtherRequests ==
    {ClientRequest(GET, ROOT, <<>>, TRUE, Empty, 0),
     ClientRequest(PUT, ROOT, <<>>, TRUE, Empty, 0),
     ClientRequest(GET, ROOT, <<CONTENT_LENGTH \o Colon \o Decimal(1)>>,
                   TRUE, ValA, 0),
     ClientRequest(POST, ROOT, <<>>, FALSE, Empty, 0),
     ClientRequest(GET, Str(<<"/", "a", ":", "b">>), <<>>, TRUE, Empty, 0)}

Requests == PostRequests \cup OtherRequests

Submission(data, declared, first) ==
    ClientRequest(POST, ROOT,
                  <<CONTENT_LENGTH \o Colon \o <<Space>> \o Decimal(declared)>>,
                  TRUE, data, first)

GoodBodyA == SSID \o Eq \o ValA \o Amp \o PASSWORD \o Eq \o Encoded42
GoodBodyB == PASSWORD \o Eq \o ValA \o Amp \o SSID \o Eq \o Encoded42
EmptySsidBody == SSID \o Eq \o Amp \o PASSWORD \o Eq \o ValA

\* the requests seen while the whole device is explored: a page fetch, two
\* different good submissions (one of them in two segments), a submission
\* with an empty ssid, one without '=', and one that stops a byte short
FewRequests ==
    {ClientRequest(GET, ROOT, <<>>, TRUE, Empty, 0),
     Submission(GoodBodyA, Len(GoodBodyA), Len(GoodBodyA)),
     Submission(GoodBodyB, Len(GoodBodyB), 0),
     Submission(EmptySsidBody, Len(EmptySsidBody), Len(EmptySsidBody)),
     Submission(SSID, Len(SSID), Len(SSID)),
     Submission(GoodBodyA, Len(GoodBodyA) + 1, Len(GoodBodyA))}

\* the requests the server may be sent
ClientRequests == IF clients = "few" THEN FewRequests ELSE Requests

\* the bytes of the first segment
RequestText(req) ==
    Join(<<req.method \o <<Space>> \o req.path \o <<Space>> \o HTTP11>>
           \o req.lines, CRLF)
      \o (IF req.sep THEN CRLFCRLF \o Take(req.data, req.first)
          ELSE <<>>)

\* ------------------------------------------- PicoWifi.gatherCredentials
\* the recv(1024) calls
RECV_SIZE == 1024

\* lines 97-98
GatherStart ==
    /\ pc = "g_start"
    /\ IF ~accessPointIsRunning
       THEN CallMethod("startAccessPoint", "a_offWifi")
       ELSE Goto("g_server")
    /\ UNCHANGED cmVars
    /\ UNCHANGED srvVars

\* line 100: WifiCredentialsServer(...), then lines 397-402 of its
\* gatherCredentials: bind, listen, credentials = None
ServerListen ==
    /\ pc = "g_server"
    /\ sock' = "listening"
    /\ conn' = "none"
    /\ form' = NoneDict
    /\ request' = NoRequest
    /\ headers' = NoneDict
    /\ body' = Empty
    /\ sent' = <<>>
    /\ pending' = Empty
    /\ gathered' = NoneCredentials
    /\ Goto("s_accept")
    /\ UNCHANGED cmVars
    /\ UNCHANGED <<clients, urlVars>>

\* lines 407-418 up to the loop of __getRequestBody: accept, the first
\* recv, the split at the blank line, the header dict, the declared length
Accept ==
    /\ pc = "s_accept"
    /\ \E req \in ClientRequests :
          LET segment == RequestText(req)
              raw_request == Take(segment, RECV_SIZE)
              unread == Drop(segment, RECV_SIZE)
              splitRequest == Split(raw_request, CRLFCRLF)
              parsed == getRequestHeaders(splitRequest[1])
              declared == contentLength(parsed.value)
          IN  /\ request' = req
              /\ conn' = "open"
              /\ sent' = <<>>
              /\ pending' = unread \o Drop(req.data, req.first)
              /\ IF parsed.raises # None
                 THEN /\ Raise(parsed.raises)
                      /\ UNCHANGED <<headers, body>>
                 ELSE IF Len(splitRequest) < 2
                 THEN /\ Raise("IndexError")
                      /\ headers' = parsed.value
                      /\ UNCHANGED body
                 ELSE IF declared.raises # None
                 THEN /\ Raise(declared.raises)
                      /\ headers' = parsed.value
                      /\ UNCHANGED body
                 ELSE /\ Goto("s_body")
                      /\ headers' = parsed.value
                      /\ body' = splitRequest[2]
    /\ UNCHANGED cmVars
    /\ UNCHANGED <<sock, form, clients, urlVars, gathered>>

\* lines 457-459: one more recv; the client delivers one or more of the
\* bytes it still has to send
RecvMore ==
    /\ pc = "s_body"
    /\ BodyIncomplete(body, contentLength(headers).value)
    /\ pending # <<>>
    /\ \E k \in 1..Len(pending) :
          /\ k <= RECV_SIZE
          /\ body' = body \o Take(pending, k)
          /\ pending' = Drop(pending, k)
    /\ Goto("s_body")
    /\ UNCHANGED cmVars
    /\ UNCHANGED <<sock, conn, request, headers, sent, form, clients, urlVars,
                   gathered>>

\* lines 457-459 when the client has sent everything and closed its end:
\* recv returns b"" at once, now and every time after, and the loop goes on
RecvEOF ==
    /\ pc = "s_body"
    /\ BodyIncomplete(body, contentLength(headers).value)
    /\ pending = <<>>
    /\ conn = "open"
    /\ conn' = "eof"
    /\ Goto("s_body")
    /\ UNCHANGED cmVars
    /\ UNCHANGED <<sock, request, headers, body, sent, pending, form,
                   clients, urlVars, gathered>>

\* lines 420-428: the dispatch on the method, with the responses sent
Dispatch ==
    /\ pc = "s_body"
    /\ ~BodyIncomplete(body, contentLength(headers).value)
    /\ IF headers[METHOD] = POST
       THEN LET r == parseCredentials(body)
            IN  IF r.raises # None
                THEN Raise(r.raises) /\ UNCHANGED <<sent, form>>
                ELSE /\ Goto("s_close")
                     /\ sent' = <<r.sends>>
                     /\ form' = r.value
       ELSE IF headers[METHOD] = GET
       THEN /\ Goto("s_close")
            /\ sent' = <<OK200, "page">>
            /\ UNCHANGED form
       ELSE /\ Goto("s_close")
            /\ sent' = <<BAD400>>
            /\ UNCHANGED form
    /\ UNCHANGED cmVars
    /\ UNCHANGED <<sock, conn, request, headers, body, pending, clients, urlVars,
                   gathered>>

\* line 430 and the loop condition of line 405
Close ==
    /\ pc = "s_close"
    /\ conn' = "closed"
    /\ IF form = NoneDict
       THEN /\ Goto("s_accept")
            /\ request' = NoRequest
            /\ headers' = NoneDict
            /\ body' = Empty
            /\ sent' = <<>>
            /\ pending' = Empty
       ELSE /\ Goto("s_finish")
            /\ UNCHANGED <<request, headers, body, sent, pending>>
    /\ UNCHANGED cmVars
    /\ UNCHANGED <<sock, form, clients, urlVars, gathered>>

\* lines 432-433: terminate() and the WifiCredentials handed back
Finish ==
    /\ pc = "s_finish"
    /\ sock' = "closed"
    /\ LET made == WifiCredentials(form[SSID], form[PASSWORD], None)
       IN  IF made = NoneCredentials
           THEN Raise("Exception") /\ UNCHANGED gathered
           ELSE /\ gathered' = made
                /\ IF Top = "WifiCredentialsServer.gatherCredentials"
                   THEN Return
                   ELSE Goto("g_save")
    /\ UNCHANGED cmVars
    /\ UNCHANGED <<conn, request, headers, body, sent, pending, form,
                   clients, urlVars>>

\* WifiCredentials.save with the failure of the write swallowed
saveSwallowsFailure(c, old, written) ==
    IF written
    THEN [file |-> [ssid |-> c.ssid, password |-> c.password],
          raises |-> None]
    ELSE [file |-> old, raises |-> None]

\* WifiCredentials.save, lines 241-254: the JSON of the two fields is
\* written over the old file, or the write fails and save raises
save(c, old, written) ==
    IF written
    THEN [file |-> [ssid |-> c.ssid, password |-> c.password],
          raises |-> None]
    ELSE [file |-> old, raises |-> "Exception"]

\* lines 101-104: the file path is set, the credentials are saved and
\* handed back; an exception of save leaves gatherCredentials
GatherSave ==
    /\ pc = "g_save"
    /\ gathered' = [gathered EXCEPT !.filepath = CREDENTIALS_FILE]
    /\ \E written \in BOOLEAN :
          LET r == save(gathered, file, written)
          IN  /\ file' = r.file
              /\ IF r.raises = None THEN Return ELSE Raise(r.raises)
    /\ UNCHANGED <<credentials, connection_state, connection_timeout,
                   staActive, apActive, timeout, attempt, driverLog>>
    /\ UNCHANGED <<sock, conn, request, headers, body, sent, pending, form,
                   clients, urlVars>>

\* ------------------------------------------------------------ the machine
\* PicoWifi.__init__, lines 36-56, on a device whose two personas are not
\* both active; no server exists yet
Init ==
    /\ pc = "idle"
    /\ stack = <<>>
    /\ result = NoResult
    /\ file \in FileContents
    /\ credentials = fromFile(file)
    /\ connection_state = STA_DISCONNECTED
    /\ connection_timeout \in 0..MaxTimeout
    /\ staActive \in BOOLEAN
    /\ apActive \in BOOLEAN
    /\ ~(staActive /\ apActive)
    /\ timeout = 0
    /\ attempt = NewAttempt
    /\ driverLog = <<>>
    /\ caught = None
    /\ sock = "none"
    /\ conn = "none"
    /\ request = NoRequest
    /\ headers = NoneDict
    /\ body = Empty
    /\ sent = <<>>
    /\ pending = Empty
    /\ form = NoneDict
    /\ clients = "few"
    /\ NoDecode
    /\ gathered = NoneCredentials

Next ==
    \/ Call
    \/ InitTry
    \/ InitConnected
    \/ InitExcept
    \/ InitGather
    \/ InitAssign
    \/ ConnectStart
    \/ TurnOffAdhoc
    \/ TurnOffAdhocWait
    \/ TurnOnWifi
    \/ TurnOnWifiWait
    \/ ConnectIssue
    \/ ConnectPoll
    \/ ConnectFinal
    \/ TurnOffWifi
    \/ TurnOffWifiWait
    \/ TurnOnAdhoc
    \/ TurnOnAdhocWait
    \/ AccessPointStarted
    \/ ClearCredentials
    \/ GatherStart
    \/ ServerListen
    \/ Accept
    \/ RecvMore
    \/ RecvEOF
    \/ Dispatch
    \/ Close
    \/ Finish
    \/ GatherSave

Spec == Init /\ [][Next]_vars

\* WifiCredentialsServer used on its own: the program constructs a server
\* and calls its gatherCredentials, again after each return or exception
ServerCall ==
    /\ pc = "idle"
    /\ stack' = <<"WifiCredentialsServer.gatherCredentials">>
    /\ pc' = "g_server"
    /\ result' = NoResult
    /\ caught' = None
    /\ ServerGone
    /\ UNCHANGED cmVars

ServerInit ==
    /\ pc = "idle"
    /\ stack = <<>>
    /\ result = NoResult
    /\ file = NoFile
    /\ credentials = NoneCredentials
    /\ connection_state = STA_DISCONNECTED
    /\ connection_timeout = 0
    /\ staActive = FALSE
    /\ apActive = TRUE
    /\ timeout = 0
    /\ attempt = NewAttempt
    /\ driverLog = <<>>
    /\ caught = None
    /\ sock = "none"
    /\ conn = "none"
    /\ request = NoRequest
    /\ headers = NoneDict
    /\ body = Empty
    /\ sent = <<>>
    /\ pending = Empty
    /\ form = NoneDict
    /\ clients = "all"
    /\ NoDecode
    /\ gathered = NoneCredentials

ServerNext ==
    \/ ServerCall
    \/ ServerListen
    \/ Accept
    \/ RecvMore
    \/ RecvEOF
    \/ Dispatch
    \/ Close
    \/ Finish

ServerSpec == ServerInit /\ [][ServerNext]_vars

\* ------------------------------------- __urlDecode and __parseCredentials
\* called on their own
\* largest length of a raw argument of __urlDecode
MaxInput == 3
\* largest length of a text that is form-encoded and decoded again
MaxPlain == 3

\* the characters a form-urlencoding leaves as they are
Unreserved(c) ==
    \/ c \in 48..57
    \/ c \in 65..90
    \/ c \in 97..122
    \/ c \in {42, 45, 46, 95}

HexChar(d) == IF d < 10 THEN 48 + d ELSE 55 + d

\* application/x-www-form-urlencoded, as the submitting browser applies it
\* to a field value: a space becomes '+', every other character that is
\* not left alone becomes '%' and its two hexadecimal digits
EncodeChar(c) ==
    IF Unreserved(c) THEN <<c>>
    ELSE IF c = Space THEN <<Plus>>
    ELSE <<Percent, HexChar(c \div 16), HexChar(c % 16)>>

RECURSIVE formEncode(_)
formEncode(s) ==
    IF s = <<>> THEN <<>> ELSE EncodeChar(s[1]) \o formEncode(Tail(s))

RECURSIVE StringsUpTo(_, _)
StringsUpTo(alphabet, n) ==
    IF n = 0 THEN {<<>>}
    ELSE LET shorter == StringsUpTo(alphabet, n - 1)
         IN  shorter \cup {Append(t, c) : t \in shorter, c \in alphabet}

\* the printable single-byte characters
Printable == 32..126

\* the characters the longer texts are made of: the four a form treats
\* specially, a space, a letter and two digits
PlainAlphabet ==
    {Plus, Percent, Amp[1], Eq[1], Space, Ord("a"), Ord("4"), Ord("1")}

\* the texts a user types into a field
PlainStrings ==
    {<<c>> : c \in Printable} \cup StringsUpTo(PlainAlphabet, MaxPlain)

\* the characters of raw arguments: '%', '+', ' ', '-', hexadecimal digits
\* in both cases and a letter that is none
DecodeAlphabet ==
    {Percent, Plus, Space, Minus, Ord("0"), Ord("4"), Ord("B"), Ord("f"),
     Ord("g")}

\* the arguments __urlDecode is called with
DecodeInputs ==
    StringsUpTo(DecodeAlphabet, MaxInput)
      \cup {formEncode(s) : s \in PlainStrings}

\* field values with the separators of a form body in them
FieldValues ==
    {ValA, Str(<<"a", "&", "b">>), Str(<<"a", "=", "b">>), Str(<<"&">>),
     Str(<<"=">>), Str(<<"%", "2", "6">>)}

EncodedBody(s, t) ==
    SSID \o Eq \o formEncode(s) \o Amp \o PASSWORD \o Eq \o formEncode(t)

\* the bodies __parseCredentials is called with
ParseBodies ==
    {EncodedBody(s, t) : s \in FieldValues, t \in FieldValues}
      \cup {Empty, SSID, EmptySsidBody}

\* lines 468-471
UrlDecodeStart ==
    /\ pc = "u_start"
    /\ u_toDecode' = ReplacePlus(u_input)
    /\ u_chars' = <<>>
    /\ u_i' = 0
    /\ Goto("u_loop")
    /\ UNCHANGED <<u_input, u_result>>
    /\ UNCHANGED cmVars
    /\ UNCHANGED <<sock, conn, request, headers, body, sent, pending, form,
                   clients, gathered>>

\* the loop body with a test that leaves out an escape at the very end
UrlDecodeAdvanceShort(toDecode, i) ==
    IF toDecode[i + 1] = Percent /\ i + 3 < Len(toDecode)
    THEN LET char == IntBase16(SubSeq(toDecode, i + 2, i + 3))
         IN  IF char >= 0
             THEN [emit |-> char, advance |-> 3]
             ELSE [emit |-> toDecode[i + 1], advance |-> 1]
    ELSE [emit |-> toDecode[i + 1], advance |-> 1]

\* lines 474-488, one pass of the loop body at 0-based position i: the
\* character appended to chars and the amount added to i
UrlDecodeAdvance(toDecode, i) ==
    IF toDecode[i + 1] = Percent /\ i + 2 < Len(toDecode)
    THEN LET char == IntBase16(SubSeq(toDecode, i + 2, i + 3))
         IN  IF char >= 0
             THEN [emit |-> char, advance |-> 3]
             ELSE [emit |-> toDecode[i + 1], advance |-> 1]
    ELSE [emit |-> toDecode[i + 1], advance |-> 1]

\* lines 473-488: one iteration of the while loop
UrlDecodeStep ==
    /\ pc = "u_loop"
    /\ u_i < Len(u_toDecode)
    /\ u_chars' = Append(u_chars, UrlDecodeAdvance(u_toDecode, u_i).emit)
    /\ u_i' = u_i + UrlDecodeAdvance(u_toDecode, u_i).advance
    /\ Goto("u_loop")
    /\ UNCHANGED <<u_input, u_toDecode, u_result>>
    /\ UNCHANGED cmVars
    /\ UNCHANGED <<sock, conn, request, headers, body, sent, pending, form,
                   clients, gathered>>

\* line 490, when the loop condition of line 473 fails
UrlDecodeReturn ==
    /\ pc = "u_loop"
    /\ ~(u_i < Len(u_toDecode))
    /\ u_result' = u_chars
    /\ Return
    /\ UNCHANGED <<u_input, u_toDecode, u_i, u_chars>>
    /\ UNCHANGED cmVars
    /\ UNCHANGED <<sock, conn, request, headers, body, sent, pending, form,
                   clients, gathered>>

\* lines 498-522 as one step: what is sent, and the dict returned
ParseCredentials ==
    /\ pc = "p_parse"
    /\ LET r == parseCredentials(body)
       IN  IF r.raises # None
           THEN Raise(r.raises) /\ UNCHANGED <<sent, form>>
           ELSE /\ Return
                /\ sent' = <<r.sends>>
                /\ form' = r.value
    /\ UNCHANGED cmVars
    /\ UNCHANGED <<sock, conn, request, headers, body, pending, clients,
                   gathered, urlVars>>

\* one call of __urlDecode(input) with any of the arguments, or one call
\* of __parseCredentials(connection, postBody) with any of the bodies on an
\* open connection, on a server that is not gathering credentials
DecodeInit ==
    /\ \/ /\ pc = "u_start"
          /\ stack = <<"WifiCredentialsServer.__urlDecode">>
          /\ u_input \in DecodeInputs
          /\ body = Empty
          /\ conn = "none"
       \/ /\ pc = "p_parse"
          /\ stack = <<"WifiCredentialsServer.__parseCredentials">>
          /\ u_input = Empty
          /\ body \in ParseBodies
          /\ conn = "open"
    /\ result = NoResult
    /\ file = NoFile
    /\ credentials = NoneCredentials
    /\ connection_state = STA_DISCONNECTED
    /\ connection_timeout = 0
    /\ staActive = FALSE
    /\ apActive = TRUE
    /\ timeout = 0
    /\ attempt = NewAttempt
    /\ driverLog = <<>>
    /\ caught = None
    /\ sock = "none"
    /\ request = NoRequest
    /\ headers = NoneDict
    /\ sent = <<>>
    /\ pending = Empty
    /\ form = NoneDict
    /\ clients = "all"
    /\ u_toDecode = Empty
    /\ u_i = 0
    /\ u_chars = <<>>
    /\ u_result = Empty
    /\ gathered = NoneCredentials

DecodeNext ==
    \/ UrlDecodeStart
    \/ UrlDecodeStep
    \/ UrlDecodeReturn
    \/ ParseCredentials

DecodeSpec == DecodeInit /\ [][DecodeNext]_vars

\* The single thread keeps running: every step of the program that is
\* enabled is eventually taken, the driver confirms every activation and
\* deactivation and answers every status read.  Whether the caller calls
\* again and whether a client connects or sends is up to them.
ProgramStep ==
    \/ InitTry
    \/ InitConnected
    \/ InitExcept
    \/ InitGather
    \/ InitAssign
    \/ ConnectStart
    \/ TurnOffAdhoc
    \/ TurnOffAdhocWait
    \/ TurnOnWifi
    \/ TurnOnWifiWait
    \/ ConnectIssue
    \/ ConnectPoll
    \/ ConnectFinal
    \/ TurnOffWifi
    \/ TurnOffWifiWait
    \/ TurnOnAdhoc
    \/ TurnOnAdhocWait
    \/ AccessPointStarted
    \/ ClearCredentials
    \/ GatherStart
    \/ ServerListen
    \/ Close
    \/ Finish
    \/ GatherSave

\* Dispatch can be taken exactly when the whole declared body is in
DispatchReady ==
    /\ pc = "s_body"
    /\ ~BodyIncomplete(body, contentLength(headers).value)

\* weak fairness of Dispatch, with its enabling condition written out
DispatchFair == []<>(~DispatchReady) \/ []<><<Dispatch>>_vars

FairSpec == Spec /\ WF_vars(ProgramStep) /\ DispatchFair

\* ================================================================== claims
\* the four kinds of failure connectToWifi raises
ConnectionFailures ==
    {"NoWifiCredentialsException", "IncorrectWifiPasswordException",
     "NoAccessPointFoundException", "UnknownWifiConnectionFailureException"}

InitReturned == pc = "idle" /\ result.op = "init" /\ result.outcome = "returned"
InitRaised == pc = "idle" /\ result.op = "init" /\ result.outcome = "raised"

\* C1: inside init(), none of the four connection-failure kinds raised by
\* connectToWifi propagates out of init(); each is caught by the loop.
C1_NoFailurePropagates ==
    InitRaised => result.exception \notin ConnectionFailures

\* C2: every execution of init() eventually either returns with the state
\* Connected or is in state AccessPoint with the provisioning server waiting
\* for a connection.
Provisioning ==
    /\ pc = "s_accept"
    /\ stack[1] = "init"
    /\ sock = "listening"
    /\ connection_state = STA_ACCESSPOINT
C2_InitEndsConnectedOrProvisioning ==
    (pc = "i_try") ~>
        ((InitReturned /\ connection_state = STA_CONNECTED) \/ Provisioning)

\* C3: whenever init() has returned normally, the last status connectToWifi
\* read was got-address, the state is Connected, the station persona is
\* active and the access-point persona is inactive.
C3_ReturnMeansConnected ==
    InitReturned =>
        /\ attempt.lastStatus = "STAT_GOT_IP"
        /\ attempt.outcome = "returned"
        /\ connection_state = STA_CONNECTED
        /\ staActive
        /\ ~apActive

\* init() returned after at least one provisioning cycle
C3_Witness ==
    /\ InitReturned
    /\ file # NoFile
    /\ credentials.ssid = Str(<<"B">>)

\* C4: the station and the access-point persona are never both active, in
\* any state of any sequence of calls, the states inside the calls included.
C4_PersonasExclusive == ~(staActive /\ apActive)

\* connectToWifi found the access point active, waited for it to go down
\* and then brought the station up
C4_Witness ==
    /\ pc = "c_connect"
    /\ Len(driverLog) = 2
    /\ driverLog[1].call = "ap_inactive"
    /\ driverLog[2].call = "sta_active"
    /\ staActive

\* C5: if the status first reads bad-password at the check of poll
\* iteration k, connectToWifi raises IncorrectPassword in that iteration,
\* after exactly k - 1 sleeps, and is not in its loop any more.
C5_BadPasswordRaisesAtOnce ==
    attempt.firstBad > 0 =>
        /\ attempt.outcome = "IncorrectWifiPasswordException"
        /\ attempt.iters = attempt.firstBad
        /\ attempt.sleeps = attempt.firstBad - 1
        /\ attempt.firstBad <= connection_timeout
        /\ ~attempt.everAssoc
        /\ pc \in {"i_except", "idle"}

\* bad-password at iteration 2 of 3
C5_Witness ==
    /\ attempt.firstBad = 2
    /\ connection_timeout = 3
    /\ attempt.sleeps = 1
    /\ pc = "i_except"

\* C6: if the station never associates and the status is never got-address,
\* bad-password or no-access-point-found, connectToWifi makes exactly
\* connection_timeout poll iterations, each with its sleep, and then raises
\* UnknownConnectionFailure.
C6_TimeoutAfterExactlyN ==
    (~attempt.everAssoc /\ ~attempt.everTerminal) =>
        /\ (pc = "c_poll" => attempt.iters <= connection_timeout)
        /\ (pc = "c_final" => attempt.iters = connection_timeout)
        /\ (attempt.outcome \notin {None, "NoWifiCredentialsException"} =>
               /\ attempt.outcome = "UnknownWifiConnectionFailureException"
               /\ attempt.iters = connection_timeout
               /\ attempt.sleeps = connection_timeout)

C6_Witness ==
    /\ ~attempt.everAssoc
    /\ ~attempt.everTerminal
    /\ attempt.outcome = "UnknownWifiConnectionFailureException"
    /\ attempt.iters = 2
    /\ connection_timeout = 2

\* C7: with credentials present, the outcome of connectToWifi is fixed by
\* the status read last: got-address a normal return, bad-password
\* IncorrectPassword, no-access-point-found NoAccessPointFound, any other
\* status UnknownConnectionFailure carrying that status.
C7_OutcomeByLastStatus ==
    attempt.outcome \notin {None, "NoWifiCredentialsException"} =>
        /\ attempt.lastStatus = "STAT_GOT_IP"
              <=> attempt.outcome = "returned"
        /\ attempt.lastStatus = "STAT_WRONG_PASSWORD"
              <=> attempt.outcome = "IncorrectWifiPasswordException"
        /\ attempt.lastStatus = "STAT_NO_AP_FOUND"
              <=> attempt.outcome = "NoAccessPointFoundException"
        /\ attempt.lastStatus \notin TerminalStatuses
              <=> attempt.outcome = "UnknownWifiConnectionFailureException"
        /\ attempt.outcome = "UnknownWifiConnectionFailureException"
              => attempt.code = attempt.lastStatus
        /\ attempt.outcome # "UnknownWifiConnectionFailureException"
              => attempt.code = None

C7_Witness ==
    /\ attempt.outcome = "NoAccessPointFoundException"
    /\ attempt.lastStatus = "STAT_NO_AP_FOUND"
    /\ attempt.iters = 1

\* the request in hand is a form submission
IsPost == headers # NoneDict /\ headers[METHOD] = POST

\* the POST body is non-empty and its decoded form has an ssid and a
\* password, neither of them empty
ValidSubmission(postBody) ==
    /\ postBody # Empty
    /\ formParams(postBody).raises = None
    /\ SSID \in DOMAIN formParams(postBody).value
    /\ PASSWORD \in DOMAIN formParams(postBody).value
    /\ formParams(postBody).value[SSID] # Empty
    /\ formParams(postBody).value[PASSWORD] # Empty

ServerReturned ==
    /\ pc = "idle"
    /\ result.op = "WifiCredentialsServer.gatherCredentials"
    /\ result.outcome = "returned"

\* the method dispatch of the request in hand raised
DispatchRaised ==
    /\ pc = "idle"
    /\ result.op = "WifiCredentialsServer.gatherCredentials"
    /\ result.outcome = "raised"
    /\ headers # NoneDict
    /\ request.sep
    /\ contentLength(headers).raises = None
    /\ ~BodyIncomplete(body, contentLength(headers).value)

\* C8: a POST is answered with 200 OK and ends the accept loop exactly when
\* its body is non-empty and its decoded form has a non-empty ssid and a
\* non-empty password; the credentials returned are the decoded ssid and
\* password of that POST, the request the server handled last.
C8_PostAcceptedIffValid ==
    /\ (pc = "s_close" /\ IsPost) =>
           /\ (sent = <<OK200>>) <=> ValidSubmission(body)
           /\ (form # NoneDict) <=> ValidSubmission(body)
           /\ sent \in {<<OK200>>, <<BAD400>>}
    /\ (DispatchRaised /\ IsPost) => ~ValidSubmission(body)
    /\ (pc = "s_accept") => form = NoneDict
    /\ (pc = "s_finish" \/ ServerReturned) =>
           /\ IsPost
           /\ sent = <<OK200>>
           /\ ValidSubmission(body)
           /\ form = formParams(body).value
    /\ ServerReturned =>
           /\ gathered.ssid = formParams(body).value[SSID]
           /\ gathered.password = formParams(body).value[PASSWORD]
           /\ sock = "closed"
    /\ (ServerReturned /\ body = GoodBodyA) =>
           /\ gathered.ssid = ValA
           /\ gathered.password = ValB

\* the server returned the credentials of a submission whose two values
\* were percent-encoded, sent after the header block
C8_Witness ==
    /\ ServerReturned
    /\ request.first = 0
    /\ gathered.ssid = ValB
    /\ gathered.password = ValB

\* C9: every POST whose body is empty, whose decoded form lacks ssid or
\* password (a body without any '=' included) or has one of them empty is
\* answered with 400 Bad Request and yields no credentials, and none raises
\* an error out of gatherCredentials.
C9_InvalidPostGets400 ==
    /\ (pc = "s_close" /\ IsPost /\ ~ValidSubmission(body)) =>
           /\ sent = <<BAD400>>
           /\ form = NoneDict
    /\ ~(DispatchRaised /\ IsPost /\ ~ValidSubmission(body))

\* C10: with a Content-Length header of value L, the body handed to the
\* method dispatch is what the client delivered, in order, and is at least
\* L long, however the bytes were split over the reads.
C10_DispatchedBodyComplete ==
    ((pc = "s_close" \/ DispatchRaised) /\ CONTENT_LENGTH \in DOMAIN headers)
        => /\ Len(body) >= contentLength(headers).value
           /\ body \o pending = request.data
           /\ body = Take(request.data, Len(request.data) - Len(pending))

\* a submission that came partly with the headers and partly afterwards
C10_Witness ==
    /\ pc = "s_close"
    /\ CONTENT_LENGTH \in DOMAIN headers
    /\ request.first > 0
    /\ request.first < Len(request.data)
    /\ Len(body) = contentLength(headers).value
    /\ body = request.data
    /\ sent = <<OK200>>

\* the top-level call of the server ended with an exception
ServerRaised ==
    /\ pc = "idle"
    /\ result.op = "WifiCredentialsServer.gatherCredentials"
    /\ result.outcome = "raised"

\* C11: a GET to any path is answered with 200 OK and the page, yields no
\* credentials and leaves the accept loop running; no GET ends the loop,
\* neither by credentials nor by an error.
C11_GetServesPage ==
    /\ (pc = "s_close" /\ request.method = GET) =>
           /\ sent = <<OK200, "page">>
           /\ form = NoneDict
    /\ (pc = "s_finish") => request.method # GET
    /\ ~(ServerRaised /\ request.method = GET)

\* startAccessPoint was called directly and has returned
AccessPointReturned ==
    /\ pc = "idle"
    /\ result.op = "startAccessPoint"
    /\ result.outcome = "returned"

\* C12: once startAccessPoint has completed, the stored credentials are
\* cleared: no credentials file and no credentials record, as after
\* clearCredentials.
C12_AccessPointClearsCredentials ==
    (AccessPointReturned \/ pc = "i_gather") =>
        /\ file = NoFile
        /\ credentials = NoneCredentials

DecodeReturned ==
    /\ pc = "idle"
    /\ result.op = "WifiCredentialsServer.__urlDecode"
    /\ result.outcome = "returned"

ParseReturned ==
    /\ pc = "idle"
    /\ result.op = "WifiCredentialsServer.__parseCredentials"
    /\ result.outcome = "returned"

\* C13: decoding the form-urlencoding of any text over the printable
\* single-byte characters with __urlDecode gives the text back, and a field
\* value whose encoding holds %26 or %3D comes out of __parseCredentials
\* with its literal '&' or '=', the field not split.
C13_DecodeInvertsEncode ==
    /\ DecodeReturned =>
           /\ \A s \in PlainStrings :
                 u_input = formEncode(s) => u_result = s
           /\ u_result = urlDecode(u_input)
    /\ ParseReturned =>
           \A s \in FieldValues, t \in FieldValues :
              body = EncodedBody(s, t) =>
                 /\ sent = <<OK200>>
                 /\ DOMAIN form = {SSID, PASSWORD}
                 /\ form[SSID] = s
                 /\ form[PASSWORD] = t

\* the text "+%&" came back from its encoding %2B%25%26
C13_Witness ==
    /\ DecodeReturned
    /\ u_result = <<Plus, Percent, Amp[1]>>
    /\ u_input = formEncode(u_result)
    /\ Len(u_input) = 9

\* both characters after a '%' at 0-based position i are hexadecimal digits
TwoHexDigitsFollow(toDecode, i) ==
    /\ i + 2 < Len(toDecode)
    /\ HexDigit(toDecode[i + 2]) >= 0
    /\ HexDigit(toDecode[i + 3]) >= 0

\* C14: in every pass of the scan of __urlDecode, a '%' followed by two
\* hexadecimal digits is replaced by the character they encode and the scan
\* advances by three; any other '%', like any other character, is emitted
\* as it is and the scan advances by one.
C14_MalformedPercentIsLiteral ==
    [][(pc = "u_loop" /\ u_i < Len(u_toDecode)) =>
          IF u_toDecode[u_i + 1] = Percent
               /\ TwoHexDigitsFollow(u_toDecode, u_i)
          THEN /\ u_i' = u_i + 3
               /\ u_chars' = Append(u_chars,
                                16 * HexDigit(u_toDecode[u_i + 2])
                                   + HexDigit(u_toDecode[u_i + 3]))
          ELSE /\ u_i' = u_i + 1
               /\ u_chars' = Append(u_chars, u_toDecode[u_i + 1])]_vars

\* init() is executing: it is at the bottom of the call stack
InInit == stack # <<>> /\ stack[1] = "init"

\* C15: during an execution of init(), every change of connection_state
\* follows one of the five edges, and connection_state never becomes
\* STA_CONNECTED in a step that leaves the poll loop of connectToWifi
\* running.
C15_StateFollowsEdges ==
    [][(InInit /\ connection_state' # connection_state) =>
          /\ <<connection_state, connection_state'>> \in
                {<<STA_DISCONNECTED, STA_CONNECTING>>,
                 <<STA_CONNECTING, STA_CONNECTED>>,
                 <<STA_CONNECTING, STA_DISCONNECTED>>,
                 <<STA_DISCONNECTED, STA_ACCESSPOINT>>,
                 <<STA_ACCESSPOINT, STA_CONNECTING>>}
          /\ ~(connection_state' = STA_CONNECTED /\ pc' = "c_poll")]_vars

\* the labels of connectToWifi up to the connect request
BeforeConnect ==
    {"c_start", "c_offAdhoc", "c_offAdhocWait", "c_onWifi", "c_onWifiWait",
     "c_connect"}

\* C16: in init(), the step that ends gatherCredentials either has written
\* the gathered credentials to the file and goes on to the assignment, or
\* raises out of init() leaving self.credentials as it was; the assignment
\* makes the saved credentials the current ones and leads to the next
\* attempt; from there to the connect request neither the credentials nor
\* the file change, and connect is issued with exactly those credentials.
C16_SavedBeforeNextAttempt ==
    [][InInit =>
          /\ pc = "g_save" =>
                \/ /\ pc' = "i_assign"
                   /\ file' = [ssid |-> gathered'.ssid,
                               password |-> gathered'.password]
                   /\ gathered'.ssid = gathered.ssid
                   /\ gathered'.password = gathered.password
                \/ /\ pc' = "idle"
                   /\ result' = [op |-> "init", outcome |-> "raised",
                                 exception |-> "Exception"]
                   /\ credentials' = credentials
                   /\ driverLog' = driverLog
          /\ pc = "i_assign" =>
                /\ file = [ssid |-> gathered.ssid,
                           password |-> gathered.password]
                /\ credentials' = gathered
                /\ file' = file
                /\ pc' = "i_try"
          /\ pc = "i_try" =>
                /\ pc' = "c_start"
                /\ credentials' = credentials
                /\ file' = file
          /\ pc \in BeforeConnect =>
                /\ credentials' = credentials
                /\ file' = file
                /\ pc' \in BeforeConnect \union {"c_poll", "i_except"}
          /\ pc = "c_connect" =>
                driverLog'[Len(driverLog')] =
                    DriverCall("connect", credentials.ssid,
                               credentials.password)]_vars

\* init() has gathered credentials other than the ones it failed with, has
\* saved them and is about to make them current
C16_Witness ==
    /\ InInit
    /\ pc = "i_assign"
    /\ credentials # NoneCredentials
    /\ gathered.ssid # credentials.ssid
    /\ file = [ssid |-> gathered.ssid, password |-> gathered.password]

\* ------------------------------------------- the server alone, scheduled
\* the steps of the server that wait for nothing outside the program
ServerStep ==
    \/ ServerListen
    \/ Close
    \/ Finish

\* recv can return bytes: the body is short of the declared length and the
\* client has bytes left to send
RecvMoreReady ==
    /\ pc = "s_body"
    /\ BodyIncomplete(body, contentLength(headers).value)
    /\ pending # <<>>

\* recv can return b"" for the first time: the body is short of the declared
\* length and the client has sent all it had
RecvEOFReady ==
    /\ pc = "s_body"
    /\ BodyIncomplete(body, contentLength(headers).value)
    /\ pending = <<>>
    /\ conn = "open"

\* weak fairness of the two recv steps, with their enabling conditions
\* written out: a client that has bytes left delivers them, and a client
\* that has none closes its end
RecvFair ==
    /\ []<>(~RecvMoreReady) \/ []<><<RecvMore>>_vars
    /\ []<>(~RecvEOFReady) \/ []<><<RecvEOF>>_vars

FairServerSpec ==
    ServerSpec /\ WF_vars(ServerStep) /\ DispatchFair /\ RecvFair

\* C17: once a connection is accepted and its body is being read, the
\* cycle runs to completion: the connection is eventually closed by the
\* server, whatever the client declares and delivers.
C17_CycleCompletes == (pc = "s_body") ~> (conn = "closed")

\* the positions of the calls of one kind in the log of driver calls
Calls(name) == {k \in DOMAIN driverLog : driverLog[k].call = name}

\* C18: in connectToWifi with credentials present, the station is turned
\* on only once the access point is inactive, disconnect and connect are
\* issued only once the access point is inactive and the station active,
\* and from then on the log of driver calls holds exactly one disconnect
\* and one connect, the disconnect right before the connect, the connect
\* last and with the ssid and password of the credentials, after the
\* confirmations of the two personas in this order.
C18_DriverCallOrder ==
    /\ pc \in {"c_onWifi", "c_onWifiWait"} =>
          /\ ~apActive
          /\ Calls("disconnect") = {} /\ Calls("connect") = {}
          /\ Calls("sta_active") = {}
    /\ pc = "c_connect" =>
          /\ ~apActive /\ staActive
          /\ Calls("disconnect") = {} /\ Calls("connect") = {}
    /\ pc \in {"c_poll", "c_final"} =>
          /\ ~apActive /\ staActive
          /\ Calls("connect") = {Len(driverLog)}
          /\ Calls("disconnect") = {Len(driverLog) - 1}
          /\ driverLog[Len(driverLog)] =
                DriverCall("connect", credentials.ssid, credentials.password)
          /\ \A a \in Calls("ap_inactive"), s \in Calls("sta_active") :
                a < s /\ s < Len(driverLog) - 1

\* an attempt that had to turn the access point off and the station on
C18_Witness ==
    /\ pc = "c_poll"
    /\ Len(driverLog) = 4
    /\ driverLog[1].call = "ap_inactive"
    /\ driverLog[2].call = "sta_active"
    /\ driverLog[3].call = "disconnect"
    /\ driverLog[4].call = "connect"

\* the positions of the status lines among what was sent on the connection
StatusLines == {k \in DOMAIN sent : sent[k] \in {OK200, BAD400}}

\* C19: the server has at most one connection open and none while it waits
\* in accept; when it closes a connection it has sent exactly one status
\* line on it; it never leaves the accept loop with a connection that is
\* not closed; and the listening socket is open all through the loop and
\* closed exactly when the server has returned credentials.
C19_OneCyclePerConnection ==
    /\ pc = "s_accept" => conn \in {"none", "closed"}
    /\ pc = "s_close" => Cardinality(StatusLines) = 1
    /\ pc \in {"s_accept", "s_body", "s_close"} => sock = "listening"
    /\ (pc = "idle" /\ conn # "none") => conn = "closed"
    /\ (pc = "idle" /\ result.op = "WifiCredentialsServer.gatherCredentials")
          => (sock = "closed" <=> result.outcome = "returned")
    /\ ServerReturned => form # NoneDict

\* C20: the step of connectToWifi taken with no credentials raises
\* NoWifiCredentialsException, to init() when init() made the call and to
\* the caller otherwise, and changes neither connection_state, nor the
\* credentials and their file, nor either persona, and issues no driver
\* call.
C20_NoCredentialsChangesNothing ==
    [][(pc = "c_start" /\ credentials = NoneCredentials) =>
          /\ IF InInit
             THEN pc' = "i_except" /\ caught' = "NoWifiCredentialsException"
             ELSE /\ pc' = "idle"
                  /\ result' = [op |-> "connectToWifi",
                                outcome |-> "raised",
                                exception |-> "NoWifiCredentialsException"]
          /\ connection_state' = connection_state
          /\ staActive' = staActive
          /\ apActive' = apActive
          /\ credentials' = credentials
          /\ file' = file
          /\ driverLog' = <<>>]_vars

\* connectToWifi, called while the access point is up and nothing is
\* stored, has raised and the access point is still up
C20_Witness ==
    /\ pc = "idle"
    /\ result = [op |-> "connectToWifi", outcome |-> "raised",
                 exception |-> "NoWifiCredentialsException"]
    /\ connection_state = STA_ACCESSPOINT
    /\ apActive
    /\ ~staActive
    /\ driverLog = <<>>

\* C21: while init() has the provisioning server bound and in its accept
\* loop, the access point is active, the station is inactive and
\* connection_state is STA_ACCESSPOINT; and when connectToWifi has raised
\* one of its three failures of a connect attempt, to init() or to its
\* caller, connection_state is STA_DISCONNECTED.
C21_ProvisioningAndFailureStates ==
    /\ (InInit /\ pc \in {"s_accept", "s_body", "s_close"}) =>
          /\ sock = "listening"
          /\ apActive
          /\ ~staActive
          /\ connection_state = STA_ACCESSPOINT
    /\ (pc = "i_except"
          /\ caught \in {"IncorrectWifiPasswordException",
                         "NoAccessPointFoundException",
                         "UnknownWifiConnectionFailureException"}) =>
          connection_state = STA_DISCONNECTED
    /\ (pc = "idle" /\ result.outcome = "raised"
          /\ result.op \in {"init", "connectToWifi"}
          /\ result.exception \in
                {"IncorrectWifiPasswordException",
                 "NoAccessPointFoundException",
                 "UnknownWifiConnectionFailureException"}) =>
          connection_state = STA_DISCONNECTED

\* init(), started with the station active, is reading the body of a
\* submission at its provisioning server
C21_Witness ==
    /\ InInit
    /\ pc = "s_body"
    /\ headers[METHOD] = POST
    /\ sock = "listening"
    /\ apActive
    /\ ~staActive

\* a text that is there and is not the empty string
NonEmpty(s) == s # NoneStr /\ s # Empty

\* C22: self.credentials is None or has an ssid and a password that are
\* both non-empty; the WifiCredentials built at the end of the gatherCredentials
\* of the server is built from a non-empty ssid and password, so that its
\* constructor does not raise, and what gatherCredentials then saves and
\* hands back is such a record; and every connect in the log of driver
\* calls was issued with a non-empty ssid and a non-empty password.
C22_CredentialsNonEmpty ==
    /\ credentials = NoneCredentials
          \/ (NonEmpty(credentials.ssid) /\ NonEmpty(credentials.password))
    /\ pc = "s_finish" =>
          /\ SSID \in DOMAIN form /\ PASSWORD \in DOMAIN form
          /\ WifiCredentials(form[SSID], form[PASSWORD], None)
                # NoneCredentials
    /\ pc \in {"g_save", "i_assign"} =>
          NonEmpty(gathered.ssid) /\ NonEmpty(gathered.password)
    /\ \A k \in Calls("connect") :
          NonEmpty(driverLog[k].ssid) /\ NonEmpty(driverLog[k].password)

\* init() has issued connect with the ssid and the password of a
\* submission it gathered
C22_Witness ==
    /\ InInit
    /\ pc = "c_poll"
    /\ credentials.ssid = ValB
    /\ credentials.password = ValA
    /\ driverLog[Len(driverLog)] = DriverCall("connect", ValB, ValA)

====
